---- MODULE Spec2Model ----
(***************************************************************************)
(* Model of hw1.py: a bare-socket HTTP/1.1 client.  retrieve_url parses a  *)
(* URL, fetches it twice with get_http and returns the first body when the *)
(* two normalized bodies agree; get_http reads one response until EOF,     *)
(* follows 301/302 by calling retrieve_url again, and decodes chunked and  *)
(* gzip bodies.  Python bytes and str values are TLA+ strings; indexes are *)
(* 0-based as in the source.  Python's None and a bytes value are the two  *)
(* shapes of a PyVal record.                                               *)
(***************************************************************************)
EXTENDS Integers, Sequences, FiniteSets, TLC

\* ------------------------------------------------------------------------
\* Bounds of the model
\* ------------------------------------------------------------------------

\* longest redirect chain served before the final 200
MaxChain == 6
\* longest body enumerated for the framing scenarios
MaxBody == 2
\* call depth (frames) at which the interpreter raises RecursionError
RecursionLimit == 18

\* ------------------------------------------------------------------------
\* Python bytes / str primitives used by the source
\* ------------------------------------------------------------------------

\* The recursive operators below bind their argument to a variable that
\* ranges over a singleton: the argument is then evaluated once per call,
\* also where TLC evaluates ENABLED for the fairness conditions.
TheOne(S) == CHOOSE r \in S : TRUE

MinOf(S) == CHOOSE m \in S : \A n \in S : m <= n
MaxOf(S) == CHOOSE m \in S : \A n \in S : m >= n

\* s[i:j]
Slice(s, i, j) ==
    LET hi == IF j > Len(s) THEN Len(s) ELSE j
    IN  IF i >= hi THEN "" ELSE SubSeq(s, i + 1, hi)

\* s[i:]
SliceFrom(s, i) == Slice(s, i, Len(s))

\* s.startswith(p)
StartsWith(s, p) == Len(s) >= Len(p) /\ Slice(s, 0, Len(p)) = p

\* s.find(sub, start): the lowest index >= start where sub occurs, else -1
Find(s0, sub0, start0) ==
    LET At(s, sub, start) ==
            LET hits == {i \in start..(Len(s) - Len(sub)) : Slice(s, i, i + Len(sub)) = sub}
            IN  IF hits = {} THEN -1 ELSE MinOf(hits)
    IN  TheOne({At(s, sub, start) : s \in {s0}, sub \in {sub0}, start \in {start0}})

\* s.rfind(sub)
RFind(s0, sub0) ==
    LET At(s, sub) ==
            LET hits == {i \in 0..(Len(s) - Len(sub)) : Slice(s, i, i + Len(sub)) = sub}
            IN  IF hits = {} THEN -1 ELSE MaxOf(hits)
    IN  TheOne({At(s, sub) : s \in {s0}, sub \in {sub0}})

\* sub in s
Contains(s, sub) == Find(s, sub, 0) # -1

\* s.partition(sep): <<head, sep, tail>>, or <<s, "", "">> without sep
Partition(s0, sep) ==
    LET Cut(s, i) == IF i = -1 THEN <<s, "", "">>
                     ELSE <<Slice(s, 0, i), sep, SliceFrom(s, i + Len(sep))>>
    IN  TheOne({Cut(s, i) : s \in {s0}, i \in {Find(s0, sep, 0)}})

\* s.split(sep): the pieces between the non-overlapping occurrences of sep
RECURSIVE Split(_, _)
Split(s0, sep) ==
    LET Cut(s, i) == IF i = -1 THEN <<s>>
                     ELSE <<Slice(s, 0, i)>> \o Split(SliceFrom(s, i + Len(sep)), sep)
    IN  TheOne({Cut(s, i) : s \in {s0}, i \in {Find(s0, sep, 0)}})

Whitespace == {" ", "\t", "\n", "\r", "\f"}

RECURSIVE LStrip(_)
LStrip(s0) ==
    LET Body(s) == IF Len(s) > 0 /\ Slice(s, 0, 1) \in Whitespace
                   THEN LStrip(SliceFrom(s, 1)) ELSE s
    IN  TheOne({Body(s) : s \in {s0}})

RECURSIVE RStrip(_)
RStrip(s0) ==
    LET Body(s) == IF Len(s) > 0 /\ Slice(s, Len(s) - 1, Len(s)) \in Whitespace
                   THEN RStrip(Slice(s, 0, Len(s) - 1)) ELSE s
    IN  TheOne({Body(s) : s \in {s0}})

\* s.strip()
Strip(s) == RStrip(LStrip(s))

\* s.split(): the maximal runs of non-whitespace characters
RECURSIVE SplitWs(_)
SplitWs(s0) ==
    LET End(t) == MinOf({i \in 0..Len(t) : i = Len(t) \/ Slice(t, i, i + 1) \in Whitespace})
        Body(t, e) == IF t = "" THEN <<>>
                      ELSE <<Slice(t, 0, e)>> \o SplitWs(SliceFrom(t, e))
    IN  TheOne({Body(t, End(t)) : t \in {LStrip(s0)}})

\* s.replace(old, new): every non-overlapping occurrence, left to right, one pass
RECURSIVE Replace(_, _, _)
Replace(s0, old, new) ==
    LET Cut(s, i) ==
            IF i = -1 THEN s
            ELSE Slice(s, 0, i) \o new \o Replace(SliceFrom(s, i + Len(old)), old, new)
    IN  TheOne({Cut(s, i) : s \in {s0}, i \in {Find(s0, old, 0)}})

DecDigits == "0123456789"
HexDigits == "0123456789abcdef"
HexUpper == "0123456789ABCDEF"

\* value of one digit character in the digit string ds, -1 when it is none
DigitVal(c, ds) == Find(ds, c, 0)

\* ValueError of int(): the model's integers are non-negative
ValueError == -1

RECURSIVE IntDigits(_, _, _)
IntDigits(s0, base, acc0) ==
    LET Val(c) == IF base = 16 /\ DigitVal(c, HexDigits) = -1
                  THEN DigitVal(c, HexUpper)
                  ELSE DigitVal(c, IF base = 16 THEN HexDigits ELSE DecDigits)
        Body(s, acc, d) ==
            IF s = "" THEN acc
            ELSE IF d = -1 THEN ValueError
            ELSE IntDigits(SliceFrom(s, 1), base, acc * base + d)
    IN  TheOne({Body(s, acc, d) : s \in {s0}, acc \in {acc0}, d \in {Val(Slice(s0, 0, 1))}})

\* int(s, base) for digit strings with surrounding whitespace; ValueError otherwise
PyInt(s, base) ==
    LET t == Strip(s)
    IN  IF t = "" THEN ValueError ELSE IntDigits(t, base, 0)

\* ------------------------------------------------------------------------
\* Python values: None or a bytes object
\* ------------------------------------------------------------------------

None == [isNone |-> TRUE, bytes |-> ""]
Bytes(b) == [isNone |-> FALSE, bytes |-> b]

\* ------------------------------------------------------------------------
\* Pure functions of the source
\* ------------------------------------------------------------------------

CRLF == "\r\n"
CRLF2 == "\r\n\r\n"

\* the loop with `idx += chunk_size`: the CRLF after the chunk data is not skipped
RECURSIVE ChunkLoop_NoTrailer(_, _, _)
ChunkLoop_NoTrailer(data, idx0, full_body0) ==
    LET Body(idx, full_body, end_of_size, chunk_size) ==
            IF idx >= Len(data) THEN [body |-> full_body, log |-> ""]
            ELSE IF end_of_size = -1
            THEN [body |-> full_body, log |-> "Error: Missing chunk size CRLF."]
            ELSE IF chunk_size = ValueError
            THEN [body |-> full_body, log |-> "Error: Invalid chunk size."]
            ELSE IF chunk_size = 0
            THEN [body |-> full_body, log |-> ""]
            ELSE ChunkLoop_NoTrailer(data, end_of_size + 2 + chunk_size,
                           full_body \o Slice(data, end_of_size + 2,
                                              end_of_size + 2 + chunk_size))
    IN  TheOne({Body(idx, full_body, end_of_size,
                     PyInt(Slice(data, idx, end_of_size), 16))
                   : idx \in {idx0}, full_body \in {full_body0},
                     end_of_size \in {Find(data, CRLF, idx0)}})

\* The body of the while loop of process_chunked_body, from index idx with
\* full_body accumulated so far.  The result is the returned bytes and the
\* error the function logged ("" when it logged none).
RECURSIVE ChunkLoop(_, _, _)
ChunkLoop(data, idx0, full_body0) ==
    LET Body(idx, full_body, end_of_size, chunk_size) ==
            IF idx >= Len(data) THEN [body |-> full_body, log |-> ""]
            ELSE IF end_of_size = -1
            THEN [body |-> full_body, log |-> "Error: Missing chunk size CRLF."]
            ELSE IF chunk_size = ValueError
            THEN [body |-> full_body, log |-> "Error: Invalid chunk size."]
            ELSE IF chunk_size = 0
            THEN [body |-> full_body, log |-> ""]
            ELSE ChunkLoop(data, end_of_size + 2 + chunk_size + 2,
                           full_body \o Slice(data, end_of_size + 2,
                                              end_of_size + 2 + chunk_size))
    IN  TheOne({Body(idx, full_body, end_of_size,
                     PyInt(Slice(data, idx, end_of_size), 16))
                   : idx \in {idx0}, full_body \in {full_body0},
                     end_of_size \in {Find(data, CRLF, idx0)}})

process_chunked_body(data0) == TheOne({ChunkLoop(data, 0, "") : data \in {data0}})

clean_response(response) ==
    Replace(Replace(response, "session_id=", ""), "timestamp=", "")

\* gzip of the standard library, reduced to what the client can observe: a
\* member starts with a magic prefix (written "~G" here), carries the transformed payload and
\* ends with the payload length; decompress raises on anything else.
GzipMagic == "~G"

RECURSIVE Reverse(_)
Reverse(s0) ==
    LET Body(s) == IF s = "" THEN "" ELSE Reverse(SliceFrom(s, 1)) \o Slice(s, 0, 1)
    IN  TheOne({Body(s) : s \in {s0}})

GzipError == [ok |-> FALSE, bytes |-> ""]

gzip_compress(plain) ==
    GzipMagic \o Reverse(plain) \o Slice(DecDigits, Len(plain), Len(plain) + 1)

gzip_decompress(data) ==
    LET payload == Slice(data, Len(GzipMagic), Len(data) - 1)
        size == PyInt(SliceFrom(data, Len(data) - 1), 10)
    IN  IF StartsWith(data, GzipMagic) /\ Len(data) > Len(GzipMagic)
           /\ size = Len(payload)
        THEN [ok |-> TRUE, bytes |-> Reverse(payload)]
        ELSE GzipError

\* host.encode('idna').decode('ascii') on an ASCII host name: the name itself,
\* UnicodeError on an empty label other than a trailing one
IdnaFails(host) ==
    LET labels == Split(host, ".")
    IN  host # "" /\ \E i \in 1..Len(labels) :
                       labels[i] = "" /\ ~(i = Len(labels) /\ i > 1)

\* str(port) of a non-negative integer
RECURSIVE PortStr(_)
PortStr(n) ==
    IF n < 10 THEN Slice(DecDigits, n, n + 1)
    ELSE PortStr(n \div 10) \o Slice(DecDigits, n % 10, (n % 10) + 1)

\* Lines 10-48 of retrieve_url: the target of a URL, or the diagnostic the
\* function logs before it returns None.
ParseUrl(url) ==
    LET isHttp == Slice(url, 0, 7) = "http://"
        isHttps == Slice(url, 0, 8) = "https://"
        scheme == IF isHttp THEN "http" ELSE "https"
        rest == IF isHttp THEN SliceFrom(url, 7) ELSE SliceFrom(url, 8)
        path_start == Find(rest, "/", 0)
        hostport == IF path_start # -1 THEN Slice(rest, 0, path_start) ELSE rest
        path == IF path_start # -1 THEN SliceFrom(rest, path_start) ELSE "/"
        colon_pos == RFind(hostport, ":")
        port_str == SliceFrom(hostport, colon_pos + 1)
        host == IF colon_pos # -1 THEN Slice(hostport, 0, colon_pos) ELSE hostport
        port == IF colon_pos # -1 THEN PyInt(port_str, 10)
                ELSE IF scheme = "https" THEN 443 ELSE 80
        fail(msg) == [ok |-> FALSE, log |-> msg, scheme |-> "", host |-> "",
                      path |-> "", port |-> 0]
    IN  IF ~isHttp /\ ~isHttps THEN fail("Value error occurred")
        ELSE IF port = ValueError THEN fail("Invalid port number")
        ELSE IF IdnaFails(host) THEN fail("Failed to encode hostname")
        ELSE [ok |-> TRUE, log |-> "", scheme |-> scheme, host |-> host,
              path |-> path, port |-> port]

\* Lines 91-100 of get_http: the request bytes
BuildRequest(host, path, port, scheme) ==
    LET host_header ==
            IF (scheme = "http" /\ port # 80) \/ (scheme = "https" /\ port # 443)
            THEN host \o ":" \o PortStr(port) ELSE host
    IN  "GET " \o path \o " HTTP/1.1\r\n"
        \o "Host: " \o host_header \o CRLF
        \o "User-Agent: BarebonesHTTP/1.1\r\n"
        \o "Connection: close\r\n\r\n"

\* get_http without the `status_code != 200` test of line 136
HandleResponse_AnyStatus(response, host, scheme) ==
    LET parts == Partition(response, CRLF2)
        headers == parts[1]
        body == parts[3]
        lines == Split(headers, CRLF)
        status_line == lines[1]
        words == SplitWs(status_line)
        status_code == IF Len(words) < 2 THEN ValueError ELSE PyInt(words[2], 10)
        locs == {i \in 1..Len(lines) : StartsWith(lines[i], "Location:")}
        line == lines[MinOf(locs)]
        location == Strip(Split(line, "Location:")[2])
        new_url == IF ~StartsWith(location, "http")
                   THEN scheme \o "://" \o host \o location
                   ELSE location
        chunked == Contains(headers, "Transfer-Encoding: chunked")
        dechunk == process_chunked_body(body)
        framed == IF chunked THEN dechunk.body ELSE body
        chunklog == IF chunked /\ dechunk.log # "" THEN {dechunk.log} ELSE {}
        gzipped == Contains(headers, "Content-Encoding: gzip")
        plain == gzip_decompress(framed)
        out(kind, val, url, logs) == [kind |-> kind, val |-> val, url |-> url, logs |-> logs]
    IN  IF status_code = ValueError
        THEN out("return", None, "", {"Socket connection failed"})
        ELSE IF status_code = 404
        THEN out("return", None, "", {"404 Not Found"})
        ELSE IF status_code \in {301, 302} /\ locs # {}
        THEN out("redirect", None, new_url, {"Redirecting to"})
        ELSE IF gzipped /\ ~plain.ok
        THEN out("return", None, "", chunklog \cup {"Socket connection failed"})
        ELSE out("return", Bytes(IF gzipped THEN plain.bytes ELSE framed), "", chunklog)

\* the handling of a response with gzip.decompress applied to the body as
\* received, before the chunked framing is removed
HandleResponse_GzipFirst(response, host, scheme) ==
    LET parts == Partition(response, CRLF2)
        headers == parts[1]
        body == parts[3]
        lines == Split(headers, CRLF)
        status_line == lines[1]
        words == SplitWs(status_line)
        status_code == IF Len(words) < 2 THEN ValueError ELSE PyInt(words[2], 10)
        locs == {i \in 1..Len(lines) : StartsWith(lines[i], "Location:")}
        line == lines[MinOf(locs)]
        location == Strip(Split(line, "Location:")[2])
        new_url == IF ~StartsWith(location, "http")
                   THEN scheme \o "://" \o host \o location
                   ELSE location
        chunked == Contains(headers, "Transfer-Encoding: chunked")
        gzipped == Contains(headers, "Content-Encoding: gzip")
        plain == gzip_decompress(body)
        unzipped == IF gzipped THEN plain.bytes ELSE body
        dechunk == process_chunked_body(unzipped)
        framed == IF chunked THEN dechunk.body ELSE unzipped
        chunklog == IF chunked /\ dechunk.log # "" THEN {dechunk.log} ELSE {}
        out(kind, val, url, logs) == [kind |-> kind, val |-> val, url |-> url, logs |-> logs]
    IN  IF status_code = ValueError
        THEN out("return", None, "", {"Socket connection failed"})
        ELSE IF status_code = 404
        THEN out("return", None, "", {"404 Not Found"})
        ELSE IF status_code \in {301, 302} /\ locs # {}
        THEN out("redirect", None, new_url, {"Redirecting to"})
        ELSE IF status_code # 200
        THEN out("return", None, "", {"Received non-200 status code"})
        ELSE IF gzipped /\ ~plain.ok
        THEN out("return", None, "", chunklog \cup {"Socket connection failed"})
        ELSE out("return", Bytes(framed), "", chunklog)

\* Lines 114-147 of get_http: what the hop does with the bytes it read.
\* kind "return" gives the returned value, kind "redirect" the URL handed to
\* retrieve_url; logs are the diagnostics written on the way.
HandleResponse(response, host, scheme) ==
    LET parts == Partition(response, CRLF2)
        headers == parts[1]
        body == parts[3]
        lines == Split(headers, CRLF)
        status_line == lines[1]
        words == SplitWs(status_line)
        status_code == IF Len(words) < 2 THEN ValueError ELSE PyInt(words[2], 10)
        locs == {i \in 1..Len(lines) : StartsWith(lines[i], "Location:")}
        line == lines[MinOf(locs)]
        location == Strip(Split(line, "Location:")[2])
        new_url == IF ~StartsWith(location, "http")
                   THEN scheme \o "://" \o host \o location
                   ELSE location
        chunked == Contains(headers, "Transfer-Encoding: chunked")
        dechunk == process_chunked_body(body)
        framed == IF chunked THEN dechunk.body ELSE body
        chunklog == IF chunked /\ dechunk.log # "" THEN {dechunk.log} ELSE {}
        gzipped == Contains(headers, "Content-Encoding: gzip")
        plain == gzip_decompress(framed)
        out(kind, val, url, logs) == [kind |-> kind, val |-> val, url |-> url, logs |-> logs]
    IN  IF status_code = ValueError
        THEN out("return", None, "", {"Socket connection failed"})
        ELSE IF status_code = 404
        THEN out("return", None, "", {"404 Not Found"})
        ELSE IF status_code \in {301, 302} /\ locs # {}
        THEN out("redirect", None, new_url, {"Redirecting to"})
        ELSE IF status_code # 200
        THEN out("return", None, "", {"Received non-200 status code"})
        ELSE IF gzipped /\ ~plain.ok
        THEN out("return", None, "", chunklog \cup {"Socket connection failed"})
        ELSE out("return", Bytes(IF gzipped THEN plain.bytes ELSE framed), "", chunklog)

\* ------------------------------------------------------------------------
\* The servers the client talks to
\* ------------------------------------------------------------------------

\* A peer is the byte stream one accepted connection will deliver, how the
\* network cuts it into reads ("any": every recv returns any non-empty part
\* of what is left, "bytes": one byte, "whole": all that is left) and what
\* follows it: "eof" (orderly close), "reset" (recv raises) or "stall" (the
\* peer stays silent and keeps the connection open).  Two more ends describe
\* a connection that fails before anything is read: "tls" (the handshake in
\* sock.connect raises ssl.SSLError) and "send" (sock.sendall raises).
PeerCut(data, end, seg) == [data |-> data, end |-> end, seg |-> seg]
Peer(data, end) == PeerCut(data, end, "any")

StatusLine(code) == "HTTP/1.1 " \o code \o " X" \o CRLF

\* a 301/302 answer with a Location header and no body
RedirectTo(code, loc) == StatusLine(code) \o "Location: " \o loc \o CRLF \o CRLF

\* an answer with the header lines hdrs (each ended by CRLF) and the body bytes
Answer(code, hdrs, body) == StatusLine(code) \o hdrs \o CRLF \o body

RECURSIVE Hex(_)
Hex(n) ==
    IF n < 16 THEN Slice(HexDigits, n, n + 1)
    ELSE Hex(n \div 16) \o Slice(HexDigits, n % 16, (n % 16) + 1)

\* the chunked transfer coding of a body cut into the given pieces
RECURSIVE ChunkEncode(_)
ChunkEncode(pieces) ==
    IF pieces = <<>> THEN "0" \o CRLF \o CRLF
    ELSE Hex(Len(Head(pieces))) \o CRLF \o Head(pieces) \o CRLF
         \o ChunkEncode(Tail(pieces))

\* every way of cutting b into consecutive non-empty pieces
RECURSIVE Cuts(_)
Cuts(b) ==
    IF b = "" THEN {<<>>}
    ELSE UNION {{<<Slice(b, 0, k)>> \o rest : rest \in Cuts(SliceFrom(b, k))} : k \in 1..Len(b)}

Alphabet == {"a", "0", "\r", "\n"}

RECURSIVE Words(_)
Words(n) ==
    IF n = 0 THEN {""}
    ELSE Words(n - 1) \cup {w \o c : w \in Words(n - 1), c \in Alphabet}

\* bodies of the framing scenarios: every word up to MaxBody, and bodies
\* that contain the header delimiter or look like chunk framing
LongBodies == {"\r\n\r\n", "1\r\na\r\n", "0\r\n\r\n"}
Bodies == Words(MaxBody) \cup LongBodies

\* bodies of the dynamic-content scenarios
\* plaintexts of the gzip scenarios
GzipBodies == {"", "a", "\r\n", "0\r\na"}

DynBodies == {"v=1", "v=2", "session_id=v=1", "v=timestamp=1",
              "session_id=", "sessionsession_id=_id="}

\* Location values of the redirect scenarios
Locations == {"/new/path", "http://b.test/x", "https://b.test/x",
              "new/path", "httpdocs/x"}

StartUrls == {"http://a.test/", "https://a.test:8443/s"}

\* A scenario fixes the URL handed to retrieve_url and what the servers
\* answer; the fields a kind does not use keep their defaults.
Scn(kind, start) ==
    [kind |-> kind, start |-> start, n |-> 0, code |-> "200", framing |-> "",
     body |-> "", pieces |-> <<>>, sent |-> 0, loc |-> "", via |-> FALSE,
     end |-> "eof", seg |-> "any", hcase |-> "canon"]

\* n redirects /0 -> /1 -> ... -> /n, then a 200
ChainScns == {[Scn("chain", "http://a.test/0") EXCEPT !.n = n] : n \in 0..MaxChain}

\* a redirect cycle of length n
CycleScns == {[Scn("cycle", "http://a.test/0") EXCEPT !.n = n] : n \in 1..2}

\* a correctly framed 200 with body b
FrameScns ==
    UNION {{[Scn("frame", "http://a.test/") EXCEPT
                !.framing = "chunked", !.body = b, !.pieces = c, !.seg = g]
                    : c \in Cuts(b), g \in {"any", "bytes", "whole"}}
           \cup {[Scn("frame", "http://a.test/") EXCEPT !.framing = f, !.body = b]
                    : f \in {"length", "close"}}
           : b \in Bodies}

\* Content-Length: Len(body), but the peer closes after sent < Len(body) bytes
TruncatedScns ==
    UNION {{[Scn("truncated", "http://a.test/") EXCEPT !.body = b, !.sent = k]
               : k \in 0..(Len(b) - 1)} : b \in {"a", "aa", "a\r\n0"}}

\* chunked: the chunks of pieces, then a malformed size line
BadChunkScns ==
    {[Scn("badchunk", "http://a.test/") EXCEPT !.framing = f, !.pieces = c]
        : f \in {"nohex", "nocrlf"}, c \in {<<>>, <<"a">>, <<"a0", "\r\n">>}}

\* a 302 with Location loc at the start URL; every other page of the known
\* hosts answers 200 with a body that names the target it was reached by
LocationScns ==
    {[Scn("location", u) EXCEPT !.loc = l] : u \in StartUrls, l \in Locations}

\* a final hop with status code, reached directly or through one redirect
StatusScns ==
    {[Scn("status", "http://a.test/") EXCEPT !.code = c, !.framing = f, !.via = v]
        : c \in {"404", "500", "301", "302", "204"}, f \in {"close", "chunked"},
          v \in BOOLEAN}

\* a 200 with Content-Length: 0
EmptyScns == {[Scn("empty", "http://a.test/") EXCEPT !.via = v] : v \in BOOLEAN}

\* a page whose body is any of DynBodies on every request
DynamicScns == {Scn("dynamic", "http://a.test/")}

\* a peer that resets or stalls after part of a response, a peer whose
\* TLS handshake fails and a peer that resets before the request is sent
PeerScns ==
    {[Scn("peer", "http://a.test/") EXCEPT !.end = e, !.sent = k]
        : e \in {"reset", "stall"}, k \in {0, 20}}
    \cup {[Scn("peer", "https://a.test/") EXCEPT !.end = "tls"],
          [Scn("peer", "http://a.test/") EXCEPT !.end = "send"]}

\* a 200 with Content-Length: 2 whose peer closes after sent bytes, before
\* the blank line that ends the header block
HeadCutScns ==
    {[Scn("headcut", "http://a.test/") EXCEPT !.sent = k] : k \in {0, 10, 14, 16, 25, 36}}

\* a chunked 200, a gzip 200 and a 302 with Location, with the header as
\* the source spells it ("canon"), with its name in lower case ("name") or
\* with its value in another case ("value")
CaseScns ==
    {[Scn("case", "http://a.test/") EXCEPT !.framing = f, !.hcase = h]
        : f \in {"chunked", "gzip", "location"}, h \in {"canon", "name", "value"}}
    \ {[Scn("case", "http://a.test/") EXCEPT !.framing = "location", !.hcase = "value"]}

\* a 200 that is both chunked and gzip: the compressed form of body, cut
\* into chunks in every way
GzipScns ==
    UNION {{[Scn("gzip", "http://a.test/") EXCEPT !.body = b, !.pieces = c, !.seg = "whole"]
               : c \in Cuts(gzip_compress(b))} : b \in GzipBodies}

\* URLs that retrieve_url rejects, and a host nobody serves
BadUrlScns ==
    {Scn("badurl", u) : u \in {"ftp://a.test/", "http://a.test:x/", "http://a..test/",
                               "http://c.test/"}}

Scenarios ==
    ChainScns \cup CycleScns \cup FrameScns \cup TruncatedScns \cup BadChunkScns
    \cup LocationScns \cup StatusScns \cup EmptyScns \cup DynamicScns \cup PeerScns
    \cup BadUrlScns \cup HeadCutScns \cup CaseScns \cup GzipScns

Digit(i) == Slice(DecDigits, i, i + 1)

Key(scheme, host, port, path) == scheme \o "://" \o host \o ":" \o PortStr(port) \o path

RECURSIVE Concat(_)
Concat(pieces) == IF pieces = <<>> THEN "" ELSE Head(pieces) \o Concat(Tail(pieces))

\* the chunks of pieces without the last-chunk
ChunkPrefix(pieces) ==
    LET whole == ChunkEncode(pieces)
    IN  Slice(whole, 0, Len(whole) - 5)

\* the header line of a case scenario
CaseHeader(framing, hcase) ==
    CASE framing = "chunked" /\ hcase = "canon" -> "Transfer-Encoding: chunked"
      [] framing = "chunked" /\ hcase = "name" -> "transfer-encoding: chunked"
      [] framing = "chunked" /\ hcase = "value" -> "Transfer-Encoding: Chunked"
      [] framing = "gzip" /\ hcase = "canon" -> "Content-Encoding: gzip"
      [] framing = "gzip" /\ hcase = "name" -> "content-encoding: gzip"
      [] framing = "gzip" /\ hcase = "value" -> "Content-Encoding: GZIP"
      [] framing = "location" /\ hcase = "canon" -> "Location: /f"
      [] OTHER -> "location: /f"

\* the byte stream of the scenario's page under test
Wire(scn) ==
    CASE scn.kind = "frame" /\ scn.framing = "chunked" ->
            Answer("200", "Transfer-Encoding: chunked" \o CRLF, ChunkEncode(scn.pieces))
      [] scn.kind = "frame" /\ scn.framing = "length" ->
            Answer("200", "Content-Length: " \o PortStr(Len(scn.body)) \o CRLF, scn.body)
      [] scn.kind = "frame" /\ scn.framing = "close" ->
            Answer("200", "", scn.body)
      [] scn.kind = "truncated" ->
            Answer("200", "Content-Length: " \o PortStr(Len(scn.body)) \o CRLF,
                   Slice(scn.body, 0, scn.sent))
      [] scn.kind = "badchunk" ->
            Answer("200", "Transfer-Encoding: chunked" \o CRLF,
                   ChunkPrefix(scn.pieces)
                   \o (IF scn.framing = "nohex" THEN "zz" \o CRLF \o "ab" \o CRLF
                                                     \o "0" \o CRLF \o CRLF
                       ELSE "2"))
      [] scn.kind = "status" ->
            IF scn.framing = "chunked"
            THEN Answer(scn.code, "Transfer-Encoding: chunked" \o CRLF,
                        ChunkEncode(<<"ab">>))
            ELSE Answer(scn.code, "", "ab")
      [] scn.kind = "empty" -> Answer("200", "Content-Length: 0" \o CRLF, "")
      [] scn.kind = "peer" -> Slice(Answer("200", "", "ab"), 0, scn.sent)
      [] scn.kind = "headcut" ->
            Slice(Answer("200", "Content-Length: 2" \o CRLF, "ab"), 0, scn.sent)
      [] scn.kind = "case" /\ scn.framing = "chunked" ->
            Answer("200", CaseHeader(scn.framing, scn.hcase) \o CRLF,
                   ChunkEncode(<<"a", "b">>))
      [] scn.kind = "case" /\ scn.framing = "gzip" ->
            Answer("200", CaseHeader(scn.framing, scn.hcase) \o CRLF,
                   gzip_compress("ab"))
      [] scn.kind = "case" /\ scn.framing = "location" ->
            Answer("302", CaseHeader(scn.framing, scn.hcase) \o CRLF, "")
      [] scn.kind = "gzip" ->
            Answer("200", "Transfer-Encoding: chunked" \o CRLF
                          \o "Content-Encoding: gzip" \o CRLF,
                   ChunkEncode(scn.pieces))
      [] OTHER -> ""

KnownHosts == {"a.test", "b.test"}
KnownPorts == {<<"http", 80>>, <<"https", 443>>, <<"https", 8443>>}

\* The peers a connection to the target may reach; the empty set when the
\* connection cannot be made (unknown host or nobody listening).
Serve(scn, scheme, host, port, path) ==
    LET atA == scheme = "http" /\ host = "a.test" /\ port = 80
        i == IF Len(path) = 2 /\ StartsWith(path, "/")
             THEN DigitVal(SliceFrom(path, 1), DecDigits) ELSE -1
        final == IF scn.via THEN "/f" ELSE "/"
    IN  CASE scn.kind = "chain" ->
                IF atA /\ i >= 0 /\ i < scn.n
                THEN {Peer(RedirectTo(IF i % 2 = 0 THEN "301" ELSE "302",
                                      "/" \o Digit(i + 1)), "eof")}
                ELSE IF atA /\ i = scn.n THEN {Peer(Answer("200", "", "ok"), "eof")}
                ELSE {}
          [] scn.kind = "cycle" ->
                IF atA /\ i >= 0 /\ i < scn.n
                THEN {Peer(RedirectTo("302", "/" \o Digit((i + 1) % scn.n)), "eof")}
                ELSE {}
          [] scn.kind \in {"frame", "truncated", "badchunk", "peer", "headcut", "gzip"} ->
                IF (atA \/ scn.end = "tls") /\ host = "a.test" /\ path = "/"
                THEN {PeerCut(Wire(scn), scn.end, scn.seg)}
                ELSE {}
          [] scn.kind = "case" ->
                IF atA /\ path = "/" THEN {Peer(Wire(scn), "eof")}
                ELSE IF atA /\ path = "/f" THEN {Peer(Answer("200", "", "ok"), "eof")}
                ELSE {}
          [] scn.kind \in {"status", "empty"} ->
                IF atA /\ path = "/" /\ scn.via THEN {Peer(RedirectTo("301", "/f"), "eof")}
                ELSE IF atA /\ path = final THEN {Peer(Wire(scn), "eof")}
                ELSE {}
          [] scn.kind = "location" ->
                IF Key(scheme, host, port, path) = Key(ParseUrl(scn.start).scheme,
                        ParseUrl(scn.start).host, ParseUrl(scn.start).port,
                        ParseUrl(scn.start).path)
                THEN {Peer(RedirectTo("302", scn.loc), "eof")}
                ELSE IF host \in KnownHosts /\ <<scheme, port>> \in KnownPorts
                THEN {Peer(Answer("200", "", "at " \o Key(scheme, host, port, path)), "eof")}
                ELSE {}
          [] scn.kind = "dynamic" ->
                IF atA /\ path = "/"
                THEN {Peer(Answer("200", "", b), "eof") : b \in DynBodies}
                ELSE {}
          [] OTHER -> {}

\* ------------------------------------------------------------------------
\* State
\* ------------------------------------------------------------------------

VARIABLES
    scn,      \* the scenario: start URL and servers
    stack,    \* the call stack, innermost frame last
    ret,      \* the value the callee that just returned hands to its caller
    result,   \* what the outermost retrieve_url returned
    done,     \* the outermost retrieve_url has returned
    log,      \* the diagnostics written so far
    nreq,     \* requests sent so far
    lastReq,  \* the bytes of the latest request
    nopen     \* sockets created and neither closed nor reclaimed

vars == <<scn, stack, ret, result, done, log, nreq, lastReq, nopen>>

\* sock.recv(4096)
RecvSize == 4096

NoRet == [set |-> FALSE, val |-> None]
Ret(v) == [set |-> TRUE, val |-> v]

\* a fresh activation of retrieve_url(url)
RFrame(url) ==
    [fn |-> "retrieve_url", pc |-> "start", url |-> url, scheme |-> "", host |-> "",
     path |-> "", port |-> 0, response |-> None]

\* a fresh activation of get_http(host, path, port, scheme)
GFrame(host, path, port, scheme) ==
    [fn |-> "get_http", pc |-> "connect", host |-> host, path |-> path, port |-> port,
     scheme |-> scheme, response |-> "", peer |-> Peer("", "eof")]

\* get_http has just returned to the retrieve_url that called it
GetHttpReturned ==
    /\ ret.set
    /\ stack # <<>>
    /\ stack[Len(stack)].fn = "retrieve_url"
    /\ stack[Len(stack)].pc \in {"first", "second"}

Top == stack[Len(stack)]
Pop == SubSeq(stack, 1, Len(stack) - 1)
SetTop(f) == [stack EXCEPT ![Len(stack)] = f]
Running(fn, pc) == ~done /\ stack # <<>> /\ Top.fn = fn /\ Top.pc = pc

Init ==
    /\ scn \in Scenarios
    /\ stack = <<RFrame(scn.start)>>
    /\ ret = NoRet
    /\ result = None
    /\ done = FALSE
    /\ log = {}
    /\ nreq = 0
    /\ lastReq = ""
    /\ nopen = 0

\* `return v` of the innermost activation
Return(v) == stack' = Pop /\ ret' = Ret(v)

\* retrieve_url, lines 10-51: split the URL and start the first fetch.  A
\* URL the function rejects, and the RecursionError of a call beyond the
\* interpreter's depth limit (caught at line 75), both return None.
RetrieveUrlStart ==
    /\ Running("retrieve_url", "start")
    /\ LET t == ParseUrl(Top.url)
       IN  IF ~t.ok
           THEN Return(None) /\ log' = log \cup {t.log}
           ELSE IF Len(stack) >= RecursionLimit
           THEN Return(None) /\ log' = log \cup {"Unhandled exception"}
           ELSE /\ stack' = SetTop([Top EXCEPT !.pc = "first", !.scheme = t.scheme,
                                               !.host = t.host, !.path = t.path,
                                               !.port = t.port])
                            \o <<GFrame(t.host, t.path, t.port, t.scheme)>>
                /\ ret' = NoRet
                /\ log' = log
    /\ UNCHANGED <<scn, result, done, nreq, lastReq, nopen>>

\* retrieve_url that fetches again when the first fetch returned None
RetrieveUrlSecond_Retry ==
    /\ Running("retrieve_url", "first")
    /\ ret.set
    /\ stack' = SetTop([Top EXCEPT !.pc = IF ret.val.isNone THEN "first" ELSE "second",
                                   !.response = ret.val])
                \o <<GFrame(Top.host, Top.path, Top.port, Top.scheme)>>
    /\ ret' = NoRet
    /\ log' = log
    /\ UNCHANGED <<scn, result, done, nreq, lastReq, nopen>>

\* retrieve_url with `if not response` in place of `if response is None`
RetrieveUrlSecond_Falsy ==
    /\ Running("retrieve_url", "first")
    /\ ret.set
    /\ IF ret.val.isNone \/ ret.val.bytes = ""
       THEN Return(None) /\ log' = log \cup {"returned no response"}
       ELSE /\ stack' = SetTop([Top EXCEPT !.pc = "second", !.response = ret.val])
                        \o <<GFrame(Top.host, Top.path, Top.port, Top.scheme)>>
            /\ ret' = NoRet
            /\ log' = log
    /\ UNCHANGED <<scn, result, done, nreq, lastReq, nopen>>

\* retrieve_url without the test of lines 52-54: the second fetch is made
\* whatever the first one returned
RetrieveUrlSecond_NoCheck ==
    /\ Running("retrieve_url", "first")
    /\ ret.set
    /\ stack' = SetTop([Top EXCEPT !.pc = "second", !.response = ret.val])
                \o <<GFrame(Top.host, Top.path, Top.port, Top.scheme)>>
    /\ ret' = NoRet
    /\ log' = log
    /\ UNCHANGED <<scn, result, done, nreq, lastReq, nopen>>

\* retrieve_url, lines 52-57: after the first fetch
RetrieveUrlSecond ==
    /\ Running("retrieve_url", "first")
    /\ ret.set
    /\ IF ret.val.isNone
       THEN Return(None) /\ log' = log \cup {"returned no response"}
       ELSE /\ stack' = SetTop([Top EXCEPT !.pc = "second", !.response = ret.val])
                        \o <<GFrame(Top.host, Top.path, Top.port, Top.scheme)>>
            /\ ret' = NoRet
            /\ log' = log
    /\ UNCHANGED <<scn, result, done, nreq, lastReq, nopen>>

\* retrieve_url, lines 58-68: after the second fetch
RetrieveUrlCompare ==
    /\ Running("retrieve_url", "second")
    /\ ret.set
    /\ LET response == Top.response
           second_response == ret.val
       IN  IF second_response.isNone
           THEN Return(None) /\ log' = log
           ELSE IF clean_response(response.bytes) # clean_response(second_response.bytes)
           THEN Return(None) /\ log' = log \cup {"Dynamic content detected."}
           ELSE Return(response) /\ log' = log
    /\ UNCHANGED <<scn, result, done, nreq, lastReq, nopen>>

\* get_http, lines 83-102: create the socket, connect and send the request.
\* A failed connect, a failed TLS handshake and a failed send raise; the
\* handler at line 148 returns None without a call of sock.close(), so the
\* socket stays open unless the interpreter reclaims the dropped object,
\* which may happen at the return or later.
GetHttpConnect ==
    /\ Running("get_http", "connect")
    /\ LET peers == Serve(scn, Top.scheme, Top.host, Top.port, Top.path)
       IN  IF peers = {} \/ \E p \in peers : p.end \in {"tls", "send"}
           THEN /\ Return(None)
                /\ log' = log \cup {"Socket connection failed"}
                /\ nopen' \in {nopen, nopen + 1}
                /\ UNCHANGED <<nreq, lastReq>>
           ELSE /\ \E p \in peers :
                       stack' = SetTop([Top EXCEPT !.pc = "recv", !.peer = p])
                /\ nreq' = nreq + 1
                /\ lastReq' = BuildRequest(Top.host, Top.path, Top.port, Top.scheme)
                /\ nopen' = nopen + 1
                /\ UNCHANGED <<ret, log>>
    /\ UNCHANGED <<scn, result, done>>

\* the receive loop with `response = chunk`: the latest read replaces the buffer
GetHttpRecvData_Overwrite ==
    /\ Running("get_http", "recv")
    /\ Top.peer.data # ""
    /\ \E k \in 1..(IF Len(Top.peer.data) < RecvSize THEN Len(Top.peer.data) ELSE RecvSize) :
         /\ Top.peer.seg = "bytes" => k = 1
         /\ Top.peer.seg = "whole" => k = Len(Top.peer.data) \/ k = RecvSize
         /\ stack' = SetTop([Top EXCEPT
                                 !.response = Slice(Top.peer.data, 0, k),
                                 !.peer.data = SliceFrom(@, k)])
    /\ UNCHANGED <<scn, ret, result, done, log, nreq, lastReq, nopen>>

\* get_http, lines 107-110: recv returns some bytes, which are appended
GetHttpRecvData ==
    /\ Running("get_http", "recv")
    /\ Top.peer.data # ""
    /\ \E k \in 1..(IF Len(Top.peer.data) < RecvSize THEN Len(Top.peer.data) ELSE RecvSize) :
         /\ Top.peer.seg = "bytes" => k = 1
         /\ Top.peer.seg = "whole" => k = Len(Top.peer.data) \/ k = RecvSize
         /\ stack' = SetTop([Top EXCEPT
                                 !.response = @ \o Slice(Top.peer.data, 0, k),
                                 !.peer.data = SliceFrom(@, k)])
    /\ UNCHANGED <<scn, ret, result, done, log, nreq, lastReq, nopen>>

\* get_http, lines 107-147: recv returns b"" (the peer closed); the socket
\* is closed and the response is handled.  A redirect calls retrieve_url;
\* the RecursionError of a call beyond the depth limit is caught at 148.
GetHttpRecvEof ==
    /\ Running("get_http", "recv")
    /\ Top.peer.data = ""
    /\ Top.peer.end = "eof"
    /\ LET h == HandleResponse(Top.response, Top.host, Top.scheme)
       IN  IF h.kind = "redirect"
           THEN IF Len(stack) >= RecursionLimit
                THEN Return(None) /\ log' = log \cup h.logs \cup {"Socket connection failed"}
                ELSE /\ stack' = SetTop([Top EXCEPT !.pc = "redirect"]) \o <<RFrame(h.url)>>
                     /\ ret' = NoRet
                     /\ log' = log \cup h.logs
           ELSE Return(h.val) /\ log' = log \cup h.logs
    /\ nopen' = nopen - 1
    /\ UNCHANGED <<scn, result, done, nreq, lastReq>>

\* get_http, lines 107 and 148-150: recv raises (connection reset); the
\* handler returns None and sock.close() at line 112 is never reached, so
\* the socket stays open unless the interpreter reclaims the dropped object
GetHttpRecvError ==
    /\ Running("get_http", "recv")
    /\ Top.peer.data = ""
    /\ Top.peer.end = "reset"
    /\ Return(None)
    /\ log' = log \cup {"Socket connection failed"}
    /\ nopen' \in {nopen - 1, nopen}
    /\ UNCHANGED <<scn, result, done, nreq, lastReq>>

\* get_http, line 134: `return retrieve_url(new_url)` hands the value on
GetHttpReturn ==
    /\ Running("get_http", "redirect")
    /\ ret.set
    /\ stack' = Pop
    /\ UNCHANGED <<scn, ret, result, done, log, nreq, lastReq, nopen>>

\* the outermost retrieve_url has returned to its caller
Finish ==
    /\ ~done
    /\ stack = <<>>
    /\ ret.set
    /\ result' = ret.val
    /\ done' = TRUE
    /\ UNCHANGED <<scn, stack, ret, log, nreq, lastReq, nopen>>

Next ==
    \/ RetrieveUrlStart
    \/ RetrieveUrlSecond
    \/ RetrieveUrlCompare
    \/ GetHttpConnect
    \/ GetHttpRecvData
    \/ GetHttpRecvEof
    \/ GetHttpRecvError
    \/ GetHttpReturn
    \/ Finish

Spec == Init /\ [][Next]_vars

\* The scenarios of the termination checks: the redirect cycles, next to
\* scenarios that end in every other way the client can end or block.
LiveScenarios ==
    CycleScns \cup {c \in ChainScns : c.n <= 1} \cup PeerScns \cup EmptyScns
    \cup BadUrlScns

LiveInit == Init /\ scn \in LiveScenarios

\* Every step of the client is taken unless it is blocked in recv: the
\* interpreter runs the single thread to completion.
FairSpec == LiveInit /\ [][Next]_vars /\ WF_vars(Next)

\* ------------------------------------------------------------------------
\* Claims
\* ------------------------------------------------------------------------

\* C1: with the hop limit 5, a chain of N redirects followed by a 200
\* succeeds if and only if N <= 5; for N > 5 the fetch fails and the final
\* 200 body is not returned.
C1_RedirectBound ==
    (done /\ scn.kind = "chain") =>
        /\ (~result.isNone <=> scn.n <= 5)
        /\ (scn.n > 5 => result # Bytes("ok"))

\* C2: when the redirects form a cycle, retrieve_url terminates with a
\* failure, and the number of requests it sends on the way is bounded.
C2_CycleTerminates ==
    /\ (scn.kind = "cycle") ~> (done /\ result = None)
    /\ [](scn.kind = "cycle" => nreq <= RecursionLimit \div 2)

\* a cycle has been followed down to the depth limit and the failure has
\* been returned to the caller
C2_Witness ==
    /\ scn.kind = "cycle"
    /\ done
    /\ result = None
    /\ nreq = RecursionLimit \div 2
    /\ "Redirecting to" \in log

\* C3: round-trip framing.  Decoding the chunked encoding of a body B, cut
\* into chunks in any way, with process_chunked_body gives exactly B, and a
\* correctly framed chunked, content-length or connection-close 200 makes
\* get_http return exactly B.
C3_RoundTripFraming ==
    scn.kind = "frame" =>
        /\ scn.framing = "chunked" =>
               process_chunked_body(ChunkEncode(scn.pieces)).body = scn.body
        /\ GetHttpReturned => ret.val = Bytes(scn.body)

\* get_http has returned a body that contains chunk-like framing, sent in
\* more than one chunk
C3_Witness ==
    /\ scn.kind = "frame"
    /\ scn.framing = "chunked"
    /\ scn.body = "1\r\na\r\n"
    /\ Len(scn.pieces) = 3
    /\ GetHttpReturned
    /\ ret.val = Bytes("1\r\na\r\n")

\* C4: chunk boundary independence.  For one chunked response stream,
\* every way of cutting the stream into socket reads leaves the same bytes
\* in the buffer and makes get_http return the body that a single read of
\* the whole stream gives.
C4_ReadBoundaryIndependence ==
    (scn.kind = "frame" /\ scn.framing = "chunked") =>
        /\ Running("get_http", "recv") => Top.response \o Top.peer.data = Wire(scn)
        /\ GetHttpReturned =>
               ret.val = HandleResponse(Wire(scn), "a.test", "http").val

\* the stream arrived one byte per read and get_http returned the body of
\* its two chunks
C4_Witness ==
    /\ scn.kind = "frame"
    /\ scn.framing = "chunked"
    /\ scn.seg = "bytes"
    /\ Len(scn.pieces) = 2
    /\ GetHttpReturned
    /\ ret.val = Bytes(scn.body)

\* C5: a 200 with Content-Length: N whose peer closes after fewer than N
\* body bytes ends the hop in a failure; the truncated body is never
\* returned.
C5_TruncatedLengthFails ==
    scn.kind = "truncated" =>
        /\ GetHttpReturned => ret.val = None
        /\ done => result = None

\* C6: a chunk-size line without CRLF or with a non-hexadecimal size ends
\* the hop in a failure; the bytes decoded before it are never returned.
C6_MalformedChunkFails ==
    scn.kind = "badchunk" =>
        /\ GetHttpReturned => ret.val = None
        /\ done => result = None

\* C7: on a 301/302 a Location that begins with http:// or https://
\* replaces scheme and host of the next hop; every other Location is a
\* path, and the next hop goes to the current hop's scheme and host with
\* that path.
C7_LocationResolution ==
    \A i \in 1..(Len(stack) - 1) :
        (scn.kind = "location" /\ stack[i].fn = "get_http" /\ stack[i].pc = "redirect") =>
            LET cur == stack[i]
                nxt == ParseUrl(stack[i + 1].url)
                absolute == StartsWith(scn.loc, "http://") \/ StartsWith(scn.loc, "https://")
            IN  /\ nxt.ok
                /\ IF absolute
                   THEN nxt.scheme \o "://" \o nxt.host \o nxt.path = scn.loc
                   ELSE /\ nxt.scheme = cur.scheme
                        /\ nxt.host = cur.host
                        /\ nxt.path \in {scn.loc, "/" \o scn.loc}

\* C8: a final hop whose status is not 200 gives an error and no body: 404
\* is reported as not found, a 301/302 without Location and every other
\* status as an unexpected status, whatever the body and its encoding are.
C8_StatusErrors ==
    scn.kind = "status" =>
        /\ GetHttpReturned => ret.val = None
        /\ done =>
              /\ result = None
              /\ ("404 Not Found" \in log) <=> (scn.code = "404")
              /\ ("Received non-200 status code" \in log) <=> (scn.code # "404")

\* a chunked 500 reached through a redirect has been reported
C8_Witness ==
    /\ scn.kind = "status"
    /\ scn.code = "500"
    /\ scn.framing = "chunked"
    /\ scn.via
    /\ done
    /\ result = None
    /\ "Received non-200 status code" \in log

\* C9: a 200 with Content-Length: 0, served on both fetches, makes
\* retrieve_url return the empty byte string, which is not the failure
\* value, also behind a redirect.
C9_EmptyBodySucceeds ==
    scn.kind = "empty" =>
        /\ GetHttpReturned => ret.val = Bytes("")
        /\ done => (result = Bytes("") /\ ~result.isNone /\ result # None)

\* the empty body has been returned through a redirect after two fetches
C9_Witness ==
    /\ scn.kind = "empty"
    /\ scn.via
    /\ done
    /\ result = Bytes("")
    /\ nreq = 6

\* x is y with one volatile token inserted
OneTokenApart(x, y) ==
    \E tok \in {"session_id=", "timestamp="}, i \in 0..Len(y) :
        x = Slice(y, 0, i) \o tok \o SliceFrom(y, i)

\* C10: when both fetches succeed with bodies B1 and B2, retrieve_url
\* returns B1 exactly when the bodies are equal after the removal of the
\* tokens session_id= and timestamp=, in particular when B1 = B2 or when
\* they differ only by such a token, and None for every other pair.
C10_DynamicDetection ==
    [][(Running("retrieve_url", "second") /\ ret.set /\ ~ret.val.isNone) =>
          LET B1 == Top.response.bytes
              B2 == ret.val.bytes
          IN  /\ ret'.val = IF clean_response(B1) = clean_response(B2)
                            THEN Bytes(B1) ELSE None
              /\ (B1 = B2 \/ OneTokenApart(B1, B2) \/ OneTokenApart(B2, B1)) =>
                     ret'.val = Bytes(B1)]_vars

\* C11: the value retrieve_url returns when a fetch failed (None, lines 54
\* and 59) is never the value it returns when the two bodies differed: a
\* run that reports dynamic content does not return the failure value.
C11_FailureDistinctFromDynamic ==
    done =>
        /\ ("returned no response" \in log) => result = None
        /\ ("Dynamic content detected." \in log) => result # None

\* C12: every socket a hop opened is closed when the hop returns, whether
\* it returns a body or fails by a connect, TLS, send or receive error.
C12_SocketClosedOnReturn ==
    (GetHttpReturned \/ done) => nopen = 0

\* C13: a peer that accepts and then neither sends nor closes does not
\* block the fetch forever: a get_http that waits in recv is followed by
\* the return of retrieve_url.
C13_StalledPeerTimesOut ==
    Running("get_http", "recv") ~> done

\* C14: the outcome of a hop is the same whatever the letter case of the
\* header names Transfer-Encoding, Content-Encoding and Location and of
\* the values chunked and gzip: the hop decides on a redirect, and decodes
\* the body, as it does for the response in the source's spelling.
C14_HeaderCaseInsensitive ==
    (scn.kind = "case" /\ Running("get_http", "recv") /\ Top.path = "/"
        /\ Top.peer.data = "") =>
        LET h == HandleResponse(Top.response, Top.host, Top.scheme)
            c == HandleResponse(Wire([scn EXCEPT !.hcase = "canon"]), Top.host, Top.scheme)
        IN  h.kind = c.kind /\ h.val = c.val /\ h.url = c.url

\* C15: when the peer closes before the blank line that ends the header
\* block has arrived, the hop fails; no body, not even the empty one, is
\* returned, also when the status line reads 200.
C15_IncompleteHeadersFail ==
    scn.kind = "headcut" =>
        /\ GetHttpReturned => ret.val = None
        /\ done => result = None

\* C16: for a 200 that is both chunked and gzip the chunked framing is
\* removed first and the reassembled bytes are decompressed: get_http
\* returns the plaintext, for every plaintext and every cut of its
\* compressed form into chunks.
C16_ChunkedThenGzip ==
    scn.kind = "gzip" =>
        /\ gzip_decompress(process_chunked_body(ChunkEncode(scn.pieces)).body)
               = [ok |-> TRUE, bytes |-> scn.body]
        /\ GetHttpReturned => ret.val = Bytes(scn.body)
        /\ done => result = Bytes(scn.body)

\* a plaintext that looks like chunk framing, compressed and sent in more
\* than two chunks, has been returned by retrieve_url
C16_Witness ==
    /\ scn.kind = "gzip"
    /\ scn.body = "0\r\na"
    /\ Len(scn.pieces) > 2
    /\ done
    /\ result = Bytes("0\r\na")

\* C17: a redirect whose Location is a path changes only the path: the
\* next hop goes to the scheme, host and port of the current hop, also
\* when that port is not the default port of the scheme.
C17_RelativeRedirectKeepsPort ==
    \A i \in 1..(Len(stack) - 1) :
        (scn.kind = "location" /\ StartsWith(scn.loc, "/")
            /\ stack[i].fn = "get_http" /\ stack[i].pc = "redirect") =>
            LET cur == stack[i]
                nxt == ParseUrl(stack[i + 1].url)
            IN  /\ nxt.ok
                /\ nxt.scheme = cur.scheme
                /\ nxt.host = cur.host
                /\ nxt.port = cur.port
                /\ nxt.path = scn.loc

\* C18: retrieve_url makes two fetches that each send one request per hop:
\* for a chain of N redirects followed by a static 200 one call sends
\* exactly 2 * (N + 1) requests.
C18_RequestCount ==
    (done /\ scn.kind = "chain" /\ result = Bytes("ok")) => nreq = 2 * (scn.n + 1)

\* the diagnostics of a hop that ended in a failure
HopFailures == {"404 Not Found", "Received non-200 status code", "Socket connection failed"}

\* C19: an error is terminal.  Once a hop has ended in a failure no
\* further request is sent, so no second fetch is started after a failed
\* first fetch, and retrieve_url returns the failure.
C19_ErrorTerminal ==
    /\ [][(log \cap HopFailures # {}) => nreq' = nreq]_vars
    /\ []((done /\ log \cap HopFailures # {}) => result = None)

\* the 404 of the first fetch has been returned after one request, and
\* the 404 behind a redirect after two
C19_Witness ==
    /\ scn.kind = "status"
    /\ scn.code = "404"
    /\ done
    /\ result = None
    /\ "404 Not Found" \in log
    /\ nreq = IF scn.via THEN 2 ELSE 1

\* C20: the output of clean_response contains neither session_id= nor
\* timestamp=, so cleaning it again changes nothing, for every body
\* retrieve_url compares.
C20_CleanResponseIdempotent ==
    (Running("retrieve_url", "second") /\ ret.set /\ ~ret.val.isNone) =>
        \A b \in {Top.response.bytes, ret.val.bytes} :
            /\ ~Contains(clean_response(b), "session_id=")
            /\ ~Contains(clean_response(b), "timestamp=")
            /\ clean_response(clean_response(b)) = clean_response(b)

====
